---- MODULE Spec2Model ----
(***************************************************************************)
(* Model of the LangGraph orchestration core of the ESG greenwashing       *)
(* detector: complexity routing (core/supervisor_agent.py), the node       *)
(* wrappers and the verdict cascade (core/agent_wrappers.py,               *)
(* core/minimal_agents.py), the debate (core/debate_orchestrator.py), the  *)
(* confidence monitor (core/confidence_monitor.py) and the graph wiring    *)
(* (core/workflow_phase2.py) as driven by main_langgraph.py.               *)
(*                                                                         *)
(* Numbers.  Complexity scores are hundredths (0.3 is 30).  Confidences    *)
(* are ten-thousandths (0.5 is 5000); a product c * 0.60 is                *)
(* (c * 60) \div 100 and a mean is a floor division, so a value is the     *)
(* Python float rounded down to four decimals.                             *)
(***************************************************************************)
EXTENDS Integers, Sequences, FiniteSets, TLC

VARIABLES
    pc,               \* the graph node about to run, "END", or "failed"
    claim,            \* the input claim, as the features the code reads from it
    industry,         \* state["industry"]
    aliased,          \* whether a node mutates the channel's own list object
    outage,           \* environment: every analysis call of the run raises
    scorer_reply,     \* the complexity scorer's reply when fixed in advance
    agent_positions,  \* the positions handed to resolve_by_voting on its own
    faults,           \* environment: calls so far that did not answer normally
    complexity_score, \* state["complexity_score"], hundredths
    workflow_path,    \* the path route_workflow selected
    evidence,         \* state["evidence"], each item by its relevance
    confidence,       \* state["confidence"], ten-thousandths
    risk_level,       \* state["risk_level"]
    agent_outputs,    \* state["agent_outputs"], the channel's value
    iteration_count,  \* state["iteration_count"]
    needs_revision,   \* state["needs_revision"]
    final_verdict,    \* state["final_verdict"]; set = FALSE is the initial {}
    report,           \* whether state["report"] was written
    executed,         \* history: the nodes run so far, in order
    appended,         \* history: how many outputs the code appended
    verdict_writes,   \* history: how many times final_verdict was assigned
    passes,           \* history: check_confidence invocations
    round_num,        \* conduct_debate: the round running, from 1; 0 outside
    turn,             \* run_debate_round: the position about to argue
    debate_history,   \* conduct_debate: the arguments made so far
    detector,         \* main.py: the ESGGreenwashingDetector instance
    analyses          \* main.py: the analyze_company calls made, with their outcome

vars == << pc, claim, industry, aliased, outage, scorer_reply,
           agent_positions, faults, complexity_score,
           workflow_path, evidence, confidence, risk_level, agent_outputs,
           iteration_count, needs_revision, final_verdict, report, executed,
           appended, verdict_writes, passes, round_num, turn, debate_history,
           detector, analyses >>

----------------------------------------------------------------------------
(* Arithmetic helpers *)

Min(a, b) == IF a <= b THEN a ELSE b

Max(a, b) == IF a >= b THEN a ELSE b

RECURSIVE SumSeq(_)
SumSeq(s) == IF s = << >> THEN 0 ELSE Head(s) + SumSeq(Tail(s))

\* a * (pct / 100) on ten-thousandths
Scale(c, pct) == (c * pct) \div 100

----------------------------------------------------------------------------
(* AgentOutput dictionaries.  Every dictionary the code appends is a record *)
(* of the same shape; a key the code leaves out is has_* = FALSE or "".     *)
(* copies is how many times the channel holds this very dictionary.         *)

Out(agent) ==
    [ agent |-> agent, action |-> "", error |-> FALSE, has_conf |-> FALSE,
      confidence |-> 0, output |-> "absent", risk_level |-> "",
      contradictions_count |-> 0, has_ratio |-> FALSE, conflict_ratio |-> 0,
      n_conflicting |-> 0, total_arguments |-> 0, copies |-> 1 ]

OkOut(agent, output, conf) ==
    [ Out(agent) EXCEPT !.output = output, !.has_conf = TRUE, !.confidence = conf ]

ErrOut(agent, conf) ==
    [ Out(agent) EXCEPT !.error = TRUE, !.has_conf = TRUE, !.confidence = conf ]

\* len(state["agent_outputs"]) as Python sees the channel's list
RawLen(outs) == SumSeq([ i \in 1..Len(outs) |-> outs[i].copies ])

----------------------------------------------------------------------------
(* The agent_outputs channel.  ESGState declares it with the reducer        *)
(* operator.add, and every node appends to state["agent_outputs"] in place  *)
(* and returns the whole state: the channel's new value is                  *)
(* operator.add(channel, returned list).  Whether the list the node         *)
(* appended to is the channel's own object (aliased) or a copy of it is     *)
(* the graph runtime's choice; both outcomes are modelled.                  *)

Doubled(outs) == [ i \in 1..Len(outs) |-> [ outs[i] EXCEPT !.copies = 2 * @ ] ]

\* the channel after a node appended `new` to its list and returned the state
Merge(outs, new) ==
    IF aliased THEN Doubled(outs \o new) ELSE Doubled(outs) \o new

\* the channel after a conditional-edge function appended `new` in place:
\* an edge function returns a route, not a state update
EdgeAppend(outs, new) == IF aliased THEN outs \o new ELSE outs

----------------------------------------------------------------------------
(* Inputs *)

\* The claim text, as the predicates verdict_generation_node evaluates on it
\* (agent_wrappers.py 763-791, 915-916, 929-931).
ClaimShape ==
    [ absolute : BOOLEAN,     \* an absolute_patterns regex matches
      legit : BOOLEAN,        \* legitimate carbon term, has_metrics and has_year
      superlative : BOOLEAN,  \* a superlatives entry occurs
      vague : BOOLEAN ]       \* keyword_count >= 2 and no metric (second has_metrics)

FeatureCount(c) ==
    (IF c.absolute THEN 1 ELSE 0) + (IF c.legit THEN 1 ELSE 0)
    + (IF c.superlative THEN 1 ELSE 0) + (IF c.vague THEN 1 ELSE 0)

\* The input claims: at most one pattern matches, or the absolute pattern
\* together with a legitimate dated carbon claim.  (VerdictInit draws every
\* combination of the four.)
Claims ==
    { c \in ClaimShape :
        \/ FeatureCount(c) <= 1
        \/ c.absolute /\ c.legit /\ ~c.superlative /\ ~c.vague }

high_risk_sectors == { "Energy", "Automotive", "Aviation", "Mining", "Oil & Gas" }

\* The (claim, industry) inputs: the sector matters to the verdict only for a
\* vague claim (lines 928-933)
Inputs ==
    { in \in Claims \X { "Energy", "Technology" } : in[2] = "Energy" => in[1].vague }

\* The complexity LLM call: raises, answers text float() rejects, or a number
Replies ==
    { [ kind |-> "raise", value |-> 0 ], [ kind |-> "text", value |-> 0 ] }
    \cup [ kind : { "number" }, value : { -50, 30, 150 } ]

\* no reply fixed: the call answers any of Replies
NoReply == [ kind |-> "none", value |-> 0 ]

\* the replies tried one by one: also the text "nan", which float() accepts,
\* and every number from -0.20 to 1.20
ScorerReplies ==
    { [ kind |-> "raise", value |-> 0 ], [ kind |-> "text", value |-> 0 ],
      [ kind |-> "nan", value |-> 0 ] }
    \cup [ kind : { "number" }, value : -20..120 ]

----------------------------------------------------------------------------
(* core/supervisor_agent.py *)

FastThreshold == 30

DeepThreshold == 70

\* the score stored without the clamp
AssessedScore_unclamped(reply) ==
    IF reply.kind = "number" THEN reply.value ELSE 50

\* assess_complexity: float(), clamp to [0,1], 0.5 on any exception;
\* min(1.0, nan) is 1.0 in Python
AssessedScore(reply) ==
    IF reply.kind = "number" THEN Max(0, Min(100, reply.value))
    ELSE IF reply.kind = "nan" THEN 100
    ELSE 50

route_workflow_le(score) ==
    IF score <= FastThreshold THEN "fast_track"
    ELSE IF score <= DeepThreshold THEN "standard_track"
    ELSE "deep_analysis"

route_workflow(score) ==
    IF score < FastThreshold THEN "fast_track"
    ELSE IF score < DeepThreshold THEN "standard_track"
    ELSE "deep_analysis"

----------------------------------------------------------------------------
(* core/workflow_phase2.py: the graph as data.  NodeFn is add_node, Edge    *)
(* is add_edge, Branch is the mapping of add_conditional_edges.  The        *)
(* conditional edge out of assess_complexity is the step classify_workflow. *)

add_node ==
    [ assess_complexity |-> "assess_complexity_node",
      classify_workflow |-> "classify_workflow",
      fast_claim |-> "claim_extraction_node",
      fast_risk |-> "risk_scoring_node",
      fast_confidence |-> "confidence_scoring_node",
      fast_verdict |-> "verdict_generation_node",
      fast_report |-> "report_generation_node",
      std_claim |-> "claim_extraction_node",
      std_evidence |-> "evidence_retrieval_node",
      std_contradiction |-> "contradiction_analysis_node",
      std_temporal |-> "temporal_analysis_node",
      std_peer |-> "peer_comparison_node",
      std_credibility |-> "credibility_analysis_node",
      std_sentiment |-> "sentiment_analysis_node",
      std_realtime |-> "realtime_monitoring_node",
      std_risk |-> "risk_scoring_node",
      std_confidence |-> "confidence_scoring_node",
      std_verdict |-> "verdict_generation_node",
      std_report |-> "report_generation_node",
      deep_claim |-> "claim_extraction_node",
      deep_evidence |-> "evidence_retrieval_node",
      deep_contradiction |-> "contradiction_analysis_node",
      deep_temporal |-> "temporal_analysis_node",
      deep_peer |-> "peer_comparison_node",
      deep_credibility |-> "credibility_analysis_node",
      deep_sentiment |-> "sentiment_analysis_node",
      deep_realtime |-> "realtime_monitoring_node",
      deep_risk |-> "risk_scoring_node",
      deep_confidence |-> "confidence_scoring_node",
      deep_verdict |-> "verdict_generation_node",
      deep_debate |-> "debate_node",
      deep_report |-> "report_generation_node" ]

\* the peer comparison nodes registered with the risk scoring function
NodeFn_miswired ==
    [ add_node EXCEPT !.std_peer = "risk_scoring_node",
                      !.deep_peer = "risk_scoring_node" ]

NodeFn == add_node

add_edge ==
    [ assess_complexity |-> "classify_workflow",
      fast_claim |-> "fast_risk",
      fast_risk |-> "fast_confidence",
      fast_confidence |-> "fast_verdict",
      fast_verdict |-> "fast_report",
      fast_report |-> "END",
      std_claim |-> "std_evidence",
      std_evidence |-> "std_contradiction",
      std_contradiction |-> "std_temporal",
      std_temporal |-> "std_peer",
      std_peer |-> "std_credibility",
      std_credibility |-> "std_sentiment",
      std_sentiment |-> "std_realtime",
      std_realtime |-> "std_risk",
      std_risk |-> "std_confidence",
      std_confidence |-> "std_verdict",
      std_verdict |-> "std_report",
      std_report |-> "END",
      deep_claim |-> "deep_evidence",
      deep_evidence |-> "deep_contradiction",
      deep_contradiction |-> "deep_temporal",
      deep_temporal |-> "deep_peer",
      deep_peer |-> "deep_credibility",
      deep_credibility |-> "deep_sentiment",
      deep_sentiment |-> "deep_realtime",
      deep_realtime |-> "deep_risk",
      deep_risk |-> "deep_confidence",
      deep_confidence |-> "deep_verdict",
      deep_verdict |-> "deep_debate",
      deep_debate |-> "deep_report",
      deep_report |-> "END" ]

\* a revision loop wired from the report back to confidence scoring
Edge_revising ==
    [ add_edge EXCEPT !.fast_report = "fast_confidence",
                      !.std_report = "std_confidence",
                      !.deep_report = "deep_confidence" ]

Edge == add_edge

Branch ==
    [ fast_track |-> "fast_claim",
      standard_track |-> "std_claim",
      deep_analysis |-> "deep_claim" ]

Nodes == DOMAIN NodeFn

At(fn) == pc \in Nodes /\ NodeFn[pc] = fn

\* What every node does besides its own fields: it appended `new` and
\* returned the state, the reducer merged it, and the graph moved on.
Returned(new) ==
    /\ agent_outputs' = Merge(agent_outputs, new)
    /\ appended' = appended + Len(new)
    /\ executed' = Append(executed, pc)
    /\ pc' = Edge[pc]

----------------------------------------------------------------------------
(* The environment of the analysis calls.  A call answers normally, or it   *)
(* does not: it raises, its agent failed to import (the *_AVAILABLE flag is *)
(* False), or it answers something that is not a dictionary.  A run sees at *)
(* most MaxFaults calls that do not answer normally, or a total outage in   *)
(* which every call raises.                                                 *)

MaxFaults == 1

Allowed(nominal, faulty) ==
    IF outage THEN { "raise" }
    ELSE nominal \cup (IF faults < MaxFaults THEN faulty ELSE {})

Charge(o, nominal) == faults' = IF o \in nominal THEN faults ELSE faults + 1

----------------------------------------------------------------------------
(* core/agent_wrappers.py and core/minimal_agents.py: what each node        *)
(* appends for each answer of its analysis call.  "ok" is the answer of the *)
(* agent class under src/agents; where that class has none of the methods   *)
(* the wrapper probes with hasattr, the wrapper's own default result.       *)

\* MinimalClaimExtractor.extract
minimal_claim_out(o) ==
    IF o = "unavailable" THEN OkOut("claim_extraction", "str", 8000)
    ELSE ErrOut("claim_extraction", 0)

claim_extraction_out(o) ==
    CASE o = "ok" -> OkOut("claim_extraction", "dict", 8000)
      [] o = "raise" -> ErrOut("claim_extraction", 5000)
      [] OTHER -> minimal_claim_out(o)

\* MinimalEvidenceRetriever.retrieve: no "output" key
minimal_evidence_out(o) ==
    IF o = "unavailable"
    THEN [ Out("evidence_retrieval") EXCEPT !.has_conf = TRUE, !.confidence = 7000 ]
    ELSE ErrOut("evidence_retrieval", 0)

evidence_retrieval_out(o) ==
    CASE o = "ok" -> OkOut("evidence_retrieval", "dict", 5000)
      [] o = "raise" -> ErrOut("evidence_retrieval", 3000)
      [] OTHER -> minimal_evidence_out(o)

contradiction_analysis_out(o) ==
    CASE o = "ok" -> OkOut("contradiction_analysis", "dict", 5000)
      [] o = "ok3" ->
           [ OkOut("contradiction_analysis", "dict", 7500)
               EXCEPT !.contradictions_count = 3 ]
      [] o = "raise" -> ErrOut("contradiction_analysis", 5000)
      [] OTHER -> OkOut("contradiction_analysis", "str", 5000)

\* The dictionaries analyze_company_history returns, by the verdict rule
\* they satisfy first: none, Rule 1 (reputation < 40 and a violation),
\* Rule 2 (greenwashing pattern, >= 2 accusations), Rule 3 (declining
\* trend), Rule 4 (reactive claims).
HistKinds == { "hist_clean", "hist_poor", "hist_pattern", "hist_declining", "hist_reactive" }

temporal_analysis_out(o) ==
    CASE o \in HistKinds -> OkOut("temporal_analysis", o, 7000)
      [] o = "raise" -> ErrOut("temporal_analysis", 5000)
      [] o = "nondict" -> OkOut("temporal_analysis", "str", 5000)
      [] o = "none" -> OkOut("temporal_analysis", "falsy", 5000)
      [] OTHER -> OkOut("temporal_analysis", "str", 5000)

\* peer_comparison_node, credibility_analysis_node, sentiment_analysis_node
plain_out(agent, o) ==
    CASE o = "ok" -> OkOut(agent, "dict", 5000)
      [] o = "raise" -> ErrOut(agent, 5000)
      [] OTHER -> OkOut(agent, "str", 5000)

realtime_monitoring_out(o) ==
    CASE o = "ok" -> OkOut("realtime_monitoring", "dict", 5000)
      [] o = "articles" -> OkOut("realtime_monitoring", "dict", 8000)
      [] o = "raise" -> ErrOut("realtime_monitoring", 5000)
      [] OTHER -> OkOut("realtime_monitoring", "str", 5000)

\* MinimalRiskScorer.score: base_score = complexity * 0.6, plus
\* (1 - avg_relevance) * 0.4 when there is evidence, against the industry's
\* thresholds.  Both sides are scaled by 100 * n to stay in integers.
INDUSTRY_THRESHOLDS(ind) ==
    CASE ind = "Energy" -> [ high |-> 70, moderate |-> 40 ]
      [] ind = "Technology" -> [ high |-> 50, moderate |-> 25 ]
      [] OTHER -> [ high |-> 65, moderate |-> 35 ]

minimal_risk_level(score, ev, ind) ==
    LET n == IF ev = << >> THEN 1 ELSE Len(ev)
        base == IF ev = << >> THEN score * 60
                ELSE score * 60 * n + (100 * n - SumSeq(ev)) * 40
        thr == INDUSTRY_THRESHOLDS(ind)
    IN  IF base >= thr.high * 100 * n THEN "HIGH"
        ELSE IF base >= thr.moderate * 100 * n THEN "MODERATE"
        ELSE "LOW"

\* risk_scoring_node: the risk level it stores and the output it appends
risk_scoring_level(o) ==
    IF o \in { "ok", "raise" } THEN "MODERATE"
    ELSE minimal_risk_level(complexity_score, evidence, industry)

risk_scoring_out(o) ==
    CASE o = "ok" ->
           [ OkOut("risk_scoring", "dict", 5000) EXCEPT !.risk_level = "MODERATE" ]
      [] o = "raise" -> ErrOut("risk_scoring", 5000)
      [] OTHER ->
           [ Out("risk_scoring") EXCEPT !.has_conf = TRUE, !.confidence = 7500,
               !.risk_level = risk_scoring_level(o) ]

----------------------------------------------------------------------------
(* confidence_scoring_node (agent_wrappers.py 683-709) *)

\* the mean of o["confidence"] over the entries kept, every copy counted;
\* 0.5 when there is none
MeanConfidence(kept) ==
    LET w == SumSeq([ i \in 1..Len(kept) |-> kept[i].copies ])
        t == SumSeq([ i \in 1..Len(kept) |-> kept[i].copies * kept[i].confidence ])
    IN  IF w = 0 THEN 5000 ELSE t \div w

Successful(o) == o.has_conf /\ ~o.error

confidence_scoring_avg_zero(outs) ==
    IF SelectSeq(outs, Successful) = << >>
    THEN 0
    ELSE MeanConfidence(SelectSeq(outs, Successful))

confidence_scoring_avg(outs) == MeanConfidence(SelectSeq(outs, Successful))

----------------------------------------------------------------------------
(* verdict_generation_node (agent_wrappers.py 712-976) *)

\* the index of the first entry of `agent`, 0 when there is none
FirstOutput(outs, agent) ==
    LET idx == { i \in 1..Len(outs) : outs[i].agent = agent }
    IN  IF idx = {} THEN 0 ELSE CHOOSE i \in idx : \A j \in idx : i <= j

\* lines 739-743: output.get("output", {}) of the first temporal_analysis entry
historical_data(outs) ==
    LET i == FirstOutput(outs, "temporal_analysis")
    IN  IF i = 0 THEN "None" ELSE outs[i].output

Truthy(payload) == payload \notin { "None", "absent", "falsy" }

IsDict(payload) == payload \in HistKinds \cup { "dict", "dict_high", "dict_low" }

\* lines 746-750
contradiction_count(outs) ==
    LET i == FirstOutput(outs, "contradiction_analysis")
    IN  IF i = 0 THEN 0 ELSE outs[i].contradictions_count

DebateAgents == { "debate_orchestrator", "debate_resolution" }

RECURSIVE MaxRatio(_)
MaxRatio(outs) ==
    IF outs = << >> THEN 0
    ELSE IF Head(outs).agent \in DebateAgents
         THEN Max(Head(outs).conflict_ratio, MaxRatio(Tail(outs)))
         ELSE MaxRatio(Tail(outs))

\* lines 753-758
debate_conflict_ratio(outs) == MaxRatio(outs)

\* a rule that matched: it replaces risk_level and confidence
Fire(r, rule, level, conf) ==
    [ r EXCEPT !.risk_level = level, !.confidence = conf, !.rules = Append(@, rule) ]

\* a clean track record taken as a reason to lower the risk level
HistoricalRules_lowering(r, h) ==
    IF h = "hist_clean" THEN Fire(r, "clean_record", "LOW", r.confidence) ELSE r

\* lines 841-884: Rules 1-4 on a dictionary
HistoricalRules(r, h) ==
    CASE h = "hist_poor" ->
           Fire(r, "historical_violations", "HIGH", Min(Scale(r.confidence, 70), 8000))
      [] h = "hist_pattern" ->
           Fire(r, "greenwashing_pattern", "HIGH", Min(Scale(r.confidence, 65), 7500))
      [] h = "hist_declining" /\ r.risk_level = "MODERATE" ->
           Fire(r, "declining_trend", "HIGH", Scale(r.confidence, 80))
      [] h = "hist_reactive" /\ r.risk_level = "MODERATE" ->
           Fire(r, "reactive_claims", "HIGH", Scale(r.confidence, 75))
      [] OTHER -> r

\* the boost of a verified claim without its cap of 0.85
Tier1_boost_uncapped(r, cl, h) ==
    IF cl.legit /\ ~cl.absolute /\ r.risk_level \in { "MODERATE", "HIGH" }
    THEN Fire(r, "verified", "LOW", Scale(r.confidence, 110))
    ELSE r

\* the historical rules tried before the claim patterns
Tier1_history_first(r, cl, h) ==
    IF Truthy(h)
    THEN IF IsDict(h) THEN HistoricalRules(r, h) ELSE [ r EXCEPT !.raised = TRUE ]
    ELSE IF cl.absolute /\ ~cl.legit
    THEN Fire(r, "absolute", "HIGH", Min(Scale(r.confidence, 60), 7500))
    ELSE r

\* lines 788-884, one if/elif chain.  historical_data.get raises
\* AttributeError on a payload that is truthy and not a dictionary.
Tier1(r, cl, h) ==
    IF cl.absolute /\ ~cl.legit
    THEN Fire(r, "absolute", "HIGH", Min(Scale(r.confidence, 60), 7500))
    ELSE IF cl.legit
    THEN IF r.risk_level \in { "MODERATE", "HIGH" }
         THEN Fire(r, "verified", "LOW", Min(Scale(r.confidence, 110), 8500))
         ELSE r
    ELSE IF Truthy(h)
    THEN IF IsDict(h) THEN HistoricalRules(r, h) ELSE [ r EXCEPT !.raised = TRUE ]
    ELSE r

\* lines 889-897
Priority3(r, count) ==
    IF count >= 3 /\ r.risk_level = "MODERATE"
    THEN Fire(r, "contradictions", "HIGH", Scale(r.confidence, 75))
    ELSE r

\* lines 902-910
Priority4(r, ratio) ==
    IF ratio >= 6000 /\ r.risk_level = "MODERATE"
    THEN Fire(r, "debate_conflict", "HIGH", Scale(r.confidence, 75))
    ELSE r

\* the superlative rule without its test of the current risk level
Priority5_unguarded(r, cl) ==
    IF cl.superlative
    THEN Fire(r, "superlative", "HIGH", Scale(r.confidence, 70))
    ELSE r

\* lines 915-923
Priority5(r, cl) ==
    IF cl.superlative /\ r.risk_level = "MODERATE"
    THEN Fire(r, "superlative", "HIGH", Scale(r.confidence, 70))
    ELSE r

\* lines 928-943
Priority6(r, cl, ind) ==
    IF ind \in high_risk_sectors /\ cl.vague /\ r.risk_level = "MODERATE"
    THEN Fire(r, "vague_sector", "HIGH", Scale(r.confidence, 80))
    ELSE r

\* the whole cascade on the state the node was given
verdict_rules(rl, conf, cl, ind, outs) ==
    LET r0 == [ risk_level |-> rl, confidence |-> conf, rules |-> << >>, raised |-> FALSE ]
        r1 == Tier1(r0, cl, historical_data(outs))
    IN  IF r1.raised THEN r1
        ELSE Priority6(
                 Priority5(
                     Priority4(Priority3(r1, contradiction_count(outs)),
                               debate_conflict_ratio(outs)),
                     cl),
                 cl, ind)

NoVerdict == [ set |-> FALSE, risk_level |-> "", final_confidence |-> 0, rules |-> << >> ]

----------------------------------------------------------------------------
(* core/debate_orchestrator.py *)

max_rounds == 3

DebateSkip == { "supervisor", "report_generation", "debate_orchestrator" }

\* infer_verdict_from_output: keywords in str(output).  "dict_high" and
\* "dict_low" are dictionaries whose text holds a HIGH or a LOW keyword; the
\* other payloads of this model hold none
infer_verdict_from_output(payload) ==
    CASE payload \in { "words_high", "dict_high" } -> "HIGH"
      [] payload \in { "words_low", "dict_low" } -> "LOW"
      [] OTHER -> "MODERATE"

\* lines 89-110: one agent's position from one of its outputs
position_of(o) ==
    [ agent |-> o.agent,
      verdict |->
        IF o.agent = "risk_scoring"
        THEN IF o.risk_level = "" THEN "MODERATE" ELSE o.risk_level
        ELSE IF o.agent = "contradiction_analysis"
        THEN IF o.contradictions_count > 2 THEN "HIGH"
             ELSE IF o.contradictions_count > 0 THEN "MODERATE" ELSE "LOW"
        ELSE infer_verdict_from_output(o.output),
      confidence |-> IF o.has_conf THEN o.confidence ELSE 5000 ]

RECURSIVE Ascending(_)
Ascending(S) ==
    IF S = {} THEN << >>
    ELSE LET m == CHOOSE x \in S : \A y \in S : x <= y
         IN  << m >> \o Ascending(S \ { m })

\* extract_positions: a dict keyed by agent, so an agent keeps the place of
\* its first output and the value of its last
extract_positions(outs) ==
    LET firsts == { i \in 1..Len(outs) :
                      /\ outs[i].agent \notin DebateSkip
                      /\ \A j \in 1..(i - 1) : outs[j].agent # outs[i].agent }
        order == Ascending(firsts)
        last(a) == CHOOSE j \in 1..Len(outs) :
                      /\ outs[j].agent = a
                      /\ \A k \in (j + 1)..Len(outs) : outs[k].agent # a
    IN  [ k \in 1..Len(order) |-> position_of(outs[last(outs[order[k]].agent)]) ]

Verdicts(positions) == { positions[k].verdict : k \in 1..Len(positions) }

\* a debate whenever two positions exist, agreeing or not
detect_conflicts_always(positions) ==
    IF Len(positions) < 2 THEN << >> ELSE positions

\* one round more than max_rounds
round_in_range_extra(r) == r <= max_rounds + 1

\* conduct_debate line 49, range(self.max_rounds): round r is run
round_in_range(r) == r <= max_rounds

\* detect_conflicts: the positions that debate, none when all agree
detect_conflicts(positions) ==
    IF Len(positions) < 2 \/ Cardinality(Verdicts(positions)) <= 1
    THEN << >> ELSE positions

\* one vote for each position, whatever its confidence
vote_weight_one(p) == 1

\* the weight rounded up instead of cut off
vote_weight_ceil(p) == (p.confidence + 999) \div 1000

\* int(confidence * 10)
vote_weight(p) == p.confidence \div 1000

Votes(positions, v) ==
    SumSeq([ k \in 1..Len(positions) |->
               IF positions[k].verdict = v THEN vote_weight(positions[k]) ELSE 0 ])

\* Counter.most_common(1): the most voted verdict, the first one counted
\* among equals
winning_verdict(positions) ==
    LET cast == { k \in 1..Len(positions) : vote_weight(positions[k]) > 0 }
        best == CHOOSE k \in cast :
                   /\ \A j \in cast : Votes(positions, positions[j].verdict)
                                        <= Votes(positions, positions[k].verdict)
                   /\ \A j \in cast : j < k =>
                        Votes(positions, positions[j].verdict)
                          < Votes(positions, positions[k].verdict)
    IN  positions[best].verdict

\* the discount applied from a conflict ratio of one half
conflict_discount_half(conf, nconf, npos) ==
    IF nconf * 10 >= 5 * npos
    THEN (conf * (10 * npos - 3 * nconf)) \div (10 * npos)
    ELSE conf

\* no discount at all
conflict_discount_none(conf, nconf, npos) == conf

\* lines 266-270: final_confidence *= 1 - conflict_ratio * 0.3 when
\* conflict_ratio = nconf / npos >= 0.60
conflict_discount(conf, nconf, npos) ==
    IF nconf * 10 >= 6 * npos
    THEN (conf * (10 * npos - 3 * nconf)) \div (10 * npos)
    ELSE conf

\* the bonus without its cap
debate_quality_bonus_uncapped(nargs) == nargs * 100

\* line 251: min(0.1, len(debate_history) * 0.01)
debate_quality_bonus(nargs) == Min(1000, nargs * 100)

\* resolve_by_voting with len(debate_history) = nargs
resolve_by_voting(positions, nargs) ==
    LET total == SumSeq([ k \in 1..Len(positions) |-> vote_weight(positions[k]) ])
    IN  IF total = 0
        THEN [ verdict |-> "MODERATE", confidence |-> 5000, has_ratio |-> FALSE,
               conflict_ratio |-> 0, n_conflicting |-> 0 ]
        ELSE LET win == winning_verdict(positions)
                 consensus == (Votes(positions, win) * 10000) \div total
                 bonus == debate_quality_bonus(nargs)
                 conf == Min(9500, consensus + bonus)
                 npos == Len(positions)
                 nconf == Cardinality({ k \in 1..npos : positions[k].verdict # win })
             IN  [ verdict |-> win,
                   confidence |-> conflict_discount(conf, nconf, npos),
                   has_ratio |-> TRUE,
                   conflict_ratio |-> (nconf * 10000) \div Max(npos, 1),
                   n_conflicting |-> nconf ]

\* how many argumentation calls of one debate may fail one by one
MaxArgFailures == 1

\* len(debate_history): max_rounds rounds of one call per position, less the
\* calls that raised
ArgCounts(npos) ==
    IF outage THEN { 0 }
    ELSE { max_rounds * npos - f : f \in 0..Min(MaxArgFailures, max_rounds * npos) }

\* conduct_debate lines 32-45 and 65-73: what it appends
no_conflict_out == [ Out("debate_orchestrator") EXCEPT !.action = "no_conflict_detected" ]

conflict_out(conflicts) ==
    [ Out("debate_orchestrator") EXCEPT !.action = "conflict_detected",
        !.n_conflicting = Len(conflicts) ]

\* the resolution entry has no conflict_ratio and no conflicting_agents key
resolution_out(final) ==
    [ Out("debate_resolution") EXCEPT !.has_conf = TRUE, !.confidence = final.confidence ]

----------------------------------------------------------------------------
(* core/confidence_monitor.py *)

max_iterations == 2

MonitorSkip == { "supervisor", "debate_orchestrator", "debate_resolution" }

Monitored(o) == o.has_conf /\ o.agent \notin MonitorSkip /\ ~o.error

\* lines 36-39, once: conflict_ratio = len(conflicting) / 13
Penalised(avg, n) == (avg * (10000 - Min(2500, (n * 3000) \div 13))) \div 10000

RECURSIVE PenalisedTimes(_, _, _)
PenalisedTimes(avg, n, times) ==
    IF times = 0 \/ Penalised(avg, n) = avg
    THEN avg
    ELSE PenalisedTimes(Penalised(avg, n), n, times - 1)

\* lines 29-40: the loop over the debate entries of the list, every copy
RECURSIVE DebatePenalty(_, _)
DebatePenalty(avg, outs) ==
    IF outs = << >> THEN avg
    ELSE IF Head(outs).agent \in DebateAgents /\ Head(outs).n_conflicting > 0
         THEN DebatePenalty(
                  PenalisedTimes(avg, Head(outs).n_conflicting, Head(outs).copies),
                  Tail(outs))
         ELSE DebatePenalty(avg, Tail(outs))

\* lines 15-42: the value stored in state["confidence"]
monitor_confidence(outs) == DebatePenalty(MeanConfidence(SelectSeq(outs, Monitored)), outs)

\* the revision asked for up to and including the iteration cap
must_revise_le(avg, count) == avg < 5000 /\ count <= max_iterations

\* the revision asked for without looking at the iteration cap
must_revise_uncapped(avg, count) == avg < 5000

\* the revision asked for at a confidence of exactly 0.5 too
must_revise_at_half(avg, count) == avg <= 5000 /\ count < max_iterations

\* line 45: revise or finalize
must_revise(avg, count) == avg < 5000 /\ count < max_iterations

\* should_revise, the conditional edge
should_revise(needs) == IF needs THEN "revise" ELSE "end"

monitor_out(avg, revise, count) ==
    [ Out("confidence_monitor") EXCEPT
        !.action = IF revise THEN "triggered_revision" ELSE "finalized" ]

----------------------------------------------------------------------------
(* The run: main_langgraph.py analyze_company invokes the compiled graph on *)
(* initial_state (lines 70-84).                                             *)

inputs == << claim, industry, aliased, outage, scorer_reply, agent_positions >>

\* the locals of conduct_debate
debate_fields == << round_num, turn, debate_history >>

\* the direct-orchestration entry point, main.py
main_fields == << detector, analyses >>

\* no ESGGreenwashingDetector constructed
NoDetector == [ built |-> FALSE, use_autogen |-> FALSE, orchestrator |-> FALSE,
                agents |-> FALSE ]

monitor_fields == << iteration_count, needs_revision, passes >>

Init ==
    /\ pc = "assess_complexity"
    /\ \E in \in Inputs : claim = in[1] /\ industry = in[2]
    /\ aliased \in BOOLEAN
    /\ outage \in BOOLEAN
    /\ scorer_reply = NoReply
    /\ agent_positions = << >>
    /\ faults = 0
    /\ complexity_score = 0
    /\ workflow_path = ""
    /\ evidence = << >>
    /\ confidence = 0
    /\ risk_level = ""
    /\ agent_outputs = << >>
    /\ iteration_count = 0
    /\ needs_revision = FALSE
    /\ final_verdict = NoVerdict
    /\ report = FALSE
    /\ executed = << >>
    /\ appended = 0
    /\ verdict_writes = 0
    /\ passes = 0
    /\ round_num = 0
    /\ turn = 0
    /\ debate_history = << >>
    /\ detector = NoDetector
    /\ analyses = << >>

\* supervisor_agent.py 18-64 and 90-93
assess_complexity_node ==
    /\ At("assess_complexity_node")
    /\ \E reply \in (IF scorer_reply = NoReply THEN Replies ELSE { scorer_reply }) :
          complexity_score' = AssessedScore(reply)
    /\ Returned(<< [ Out("supervisor") EXCEPT !.action = "complexity_assessment" ] >>)
    /\ UNCHANGED << inputs, main_fields, debate_fields, faults, workflow_path, evidence, confidence, risk_level,
                    monitor_fields, final_verdict, report, verdict_writes >>

\* supervisor_agent.py 66-87 and 95-98, run as the conditional edge
classify_workflow ==
    /\ At("classify_workflow")
    /\ workflow_path' = route_workflow(complexity_score)
    /\ agent_outputs' =
         EdgeAppend(agent_outputs,
                    << [ Out("supervisor") EXCEPT !.action = "workflow_routing" ] >>)
    /\ appended' = appended + 1
    /\ pc' = Branch[workflow_path']
    /\ UNCHANGED << inputs, main_fields, debate_fields, faults, complexity_score, evidence, confidence, risk_level,
                    monitor_fields, final_verdict, report, executed, verdict_writes >>

claim_extraction_node ==
    /\ At("claim_extraction_node")
    /\ \E o \in Allowed({ "ok" }, { "raise", "unavailable", "unavailable_raise" }) :
         /\ Charge(o, { "ok" })
         /\ Returned(<< claim_extraction_out(o) >>)
    /\ UNCHANGED << inputs, main_fields, debate_fields, complexity_score, workflow_path, evidence, confidence,
                    risk_level, monitor_fields, final_verdict, report, verdict_writes >>

evidence_retrieval_node ==
    /\ At("evidence_retrieval_node")
    /\ \E o \in Allowed({ "ok" }, { "raise", "unavailable", "unavailable_raise" }) :
         /\ Charge(o, { "ok" })
         /\ evidence' = IF o = "unavailable" THEN Append(evidence, 70) ELSE evidence
         /\ Returned(<< evidence_retrieval_out(o) >>)
    /\ UNCHANGED << inputs, main_fields, debate_fields, complexity_score, workflow_path, confidence,
                    risk_level, monitor_fields, final_verdict, report, verdict_writes >>

contradiction_analysis_node ==
    /\ At("contradiction_analysis_node")
    /\ \E o \in Allowed({ "ok", "ok3" }, { "raise", "unavailable" }) :
         /\ Charge(o, { "ok", "ok3" })
         /\ Returned(<< contradiction_analysis_out(o) >>)
    /\ UNCHANGED << inputs, main_fields, debate_fields, complexity_score, workflow_path, evidence, confidence,
                    risk_level, monitor_fields, final_verdict, report, verdict_writes >>

temporal_analysis_node ==
    /\ At("temporal_analysis_node")
    /\ \E o \in Allowed(HistKinds, { "raise", "unavailable", "nondict", "none" }) :
         /\ Charge(o, HistKinds)
         /\ Returned(<< temporal_analysis_out(o) >>)
    /\ UNCHANGED << inputs, main_fields, debate_fields, complexity_score, workflow_path, evidence, confidence,
                    risk_level, monitor_fields, final_verdict, report, verdict_writes >>

peer_comparison_node ==
    /\ At("peer_comparison_node")
    /\ \E o \in Allowed({ "ok" }, { "raise", "unavailable" }) :
         /\ Charge(o, { "ok" })
         /\ Returned(<< plain_out("peer_comparison", o) >>)
    /\ UNCHANGED << inputs, main_fields, debate_fields, complexity_score, workflow_path, evidence, confidence,
                    risk_level, monitor_fields, final_verdict, report, verdict_writes >>

credibility_analysis_node ==
    /\ At("credibility_analysis_node")
    /\ \E o \in Allowed({ "ok" }, { "raise", "unavailable" }) :
         /\ Charge(o, { "ok" })
         /\ Returned(<< plain_out("credibility_analysis", o) >>)
    /\ UNCHANGED << inputs, main_fields, debate_fields, complexity_score, workflow_path, evidence, confidence,
                    risk_level, monitor_fields, final_verdict, report, verdict_writes >>

sentiment_analysis_node ==
    /\ At("sentiment_analysis_node")
    /\ \E o \in Allowed({ "ok" }, { "raise", "unavailable" }) :
         /\ Charge(o, { "ok" })
         /\ Returned(<< plain_out("sentiment_analysis", o) >>)
    /\ UNCHANGED << inputs, main_fields, debate_fields, complexity_score, workflow_path, evidence, confidence,
                    risk_level, monitor_fields, final_verdict, report, verdict_writes >>

realtime_monitoring_node ==
    /\ At("realtime_monitoring_node")
    /\ \E o \in Allowed({ "ok", "articles" }, { "raise", "unavailable" }) :
         /\ Charge(o, { "ok", "articles" })
         /\ evidence' = IF o = "articles" THEN Append(evidence, 50) ELSE evidence
         /\ Returned(<< realtime_monitoring_out(o) >>)
    /\ UNCHANGED << inputs, main_fields, debate_fields, complexity_score, workflow_path, confidence,
                    risk_level, monitor_fields, final_verdict, report, verdict_writes >>

risk_scoring_node ==
    /\ At("risk_scoring_node")
    /\ \E o \in Allowed({ "ok" }, { "raise", "unavailable" }) :
         /\ Charge(o, { "ok" })
         /\ risk_level' = risk_scoring_level(o)
         /\ confidence' = IF o = "unavailable" THEN 7500 ELSE confidence
         /\ Returned(<< risk_scoring_out(o) >>)
    /\ UNCHANGED << inputs, main_fields, debate_fields, complexity_score, workflow_path, evidence,
                    monitor_fields, final_verdict, report, verdict_writes >>

confidence_scoring_node ==
    /\ At("confidence_scoring_node")
    /\ confidence' = confidence_scoring_avg(agent_outputs)
    /\ Returned(<< [ Out("confidence_scoring") EXCEPT
                       !.has_conf = TRUE, !.confidence = confidence' ] >>)
    /\ UNCHANGED << inputs, main_fields, debate_fields, faults, complexity_score, workflow_path, evidence,
                    risk_level, monitor_fields, final_verdict, report, verdict_writes >>

\* An exception that leaves the node ends the run: analyze_company
\* (main_langgraph.py 122-126) returns {"error": ...}.
verdict_generation_node ==
    /\ At("verdict_generation_node")
    /\ LET r == verdict_rules(risk_level, confidence, claim, industry, agent_outputs)
       IN  IF r.raised
           THEN /\ pc' = "failed"
                /\ executed' = Append(executed, pc)
                /\ UNCHANGED << risk_level, confidence, final_verdict, verdict_writes,
                                agent_outputs, appended >>
           ELSE /\ risk_level' = r.risk_level
                /\ confidence' = r.confidence
                /\ final_verdict' = [ set |-> TRUE, risk_level |-> r.risk_level,
                                      final_confidence |-> r.confidence,
                                      rules |-> r.rules ]
                /\ verdict_writes' = verdict_writes + 1
                /\ Returned(<< OkOut("verdict_generation", "dict", r.confidence) >>)
    /\ UNCHANGED << inputs, main_fields, debate_fields, faults, complexity_score, workflow_path, evidence,
                    monitor_fields, report >>

\* debate_orchestrator.py 21-75 and 289-292
debate_node ==
    /\ At("debate_node")
    /\ LET positions == extract_positions(agent_outputs)
           conflicts == detect_conflicts(positions)
       IN  IF conflicts = << >>
           THEN /\ Returned(<< no_conflict_out >>)
                /\ UNCHANGED << confidence, risk_level >>
           ELSE \E nargs \in ArgCounts(Len(conflicts)) :
                  LET final == resolve_by_voting(positions, nargs)
                  IN  /\ confidence' = final.confidence
                      /\ risk_level' = final.verdict
                      /\ Returned(<< conflict_out(conflicts),
                                      [ resolution_out(final) EXCEPT
                                          !.total_arguments = nargs ] >>)
    /\ UNCHANGED << inputs, main_fields, debate_fields, faults, complexity_score, workflow_path, evidence,
                    monitor_fields, final_verdict, report, verdict_writes >>

\* professional_report_generator.py 473-496
report_generation_node ==
    /\ At("report_generation_node")
    /\ report' = TRUE
    /\ Returned(<< [ Out("professional_report_generation") EXCEPT
                       !.has_conf = TRUE, !.confidence = 9500 ] >>)
    /\ UNCHANGED << inputs, main_fields, debate_fields, faults, complexity_score, workflow_path, evidence,
                    confidence, risk_level, monitor_fields, final_verdict,
                    verdict_writes >>

Next ==
    \/ assess_complexity_node
    \/ classify_workflow
    \/ claim_extraction_node
    \/ evidence_retrieval_node
    \/ contradiction_analysis_node
    \/ temporal_analysis_node
    \/ peer_comparison_node
    \/ credibility_analysis_node
    \/ sentiment_analysis_node
    \/ realtime_monitoring_node
    \/ risk_scoring_node
    \/ confidence_scoring_node
    \/ verdict_generation_node
    \/ debate_node
    \/ report_generation_node

Spec == Init /\ [][Next]_vars

----------------------------------------------------------------------------
(* Routing alone: route_workflow on every score of [0,1] in hundredths, in  *)
(* the state assess_complexity_node leaves.                                 *)

PlainClaim ==
    [ absolute |-> FALSE, legit |-> FALSE, superlative |-> FALSE, vague |-> FALSE ]

RouteInit ==
    /\ pc = "classify_workflow"
    /\ claim = PlainClaim
    /\ industry = "Technology"
    /\ aliased \in BOOLEAN
    /\ outage = FALSE
    /\ scorer_reply = NoReply
    /\ agent_positions = << >>
    /\ faults = 0
    /\ complexity_score \in 0..100
    /\ workflow_path = ""
    /\ evidence = << >>
    /\ confidence = 0
    /\ risk_level = ""
    /\ agent_outputs =
         Merge(<< >>, << [ Out("supervisor") EXCEPT !.action = "complexity_assessment" ] >>)
    /\ iteration_count = 0
    /\ needs_revision = FALSE
    /\ final_verdict = NoVerdict
    /\ report = FALSE
    /\ executed = << "assess_complexity" >>
    /\ appended = 1
    /\ verdict_writes = 0
    /\ passes = 0
    /\ round_num = 0
    /\ turn = 0
    /\ debate_history = << >>
    /\ detector = NoDetector
    /\ analyses = << >>

RouteSpec == RouteInit /\ [][classify_workflow]_vars

----------------------------------------------------------------------------
(* The supervisor alone: assess_complexity_node on each reply of the        *)
(* scorer, then the conditional edge.                                       *)

AssessInit ==
    /\ pc = "assess_complexity"
    /\ claim = PlainClaim
    /\ industry = "Technology"
    /\ aliased \in BOOLEAN
    /\ outage = FALSE
    /\ scorer_reply \in ScorerReplies
    /\ agent_positions = << >>
    /\ faults = 0
    /\ complexity_score = 0
    /\ workflow_path = ""
    /\ evidence = << >>
    /\ confidence = 0
    /\ risk_level = ""
    /\ agent_outputs = << >>
    /\ iteration_count = 0
    /\ needs_revision = FALSE
    /\ final_verdict = NoVerdict
    /\ report = FALSE
    /\ executed = << >>
    /\ appended = 0
    /\ verdict_writes = 0
    /\ passes = 0
    /\ round_num = 0
    /\ turn = 0
    /\ debate_history = << >>
    /\ detector = NoDetector
    /\ analyses = << >>

AssessNext == assess_complexity_node \/ classify_workflow

AssessSpec == AssessInit /\ [][AssessNext]_vars

----------------------------------------------------------------------------
(* External calls that never return.  The wrappers call their agent, and    *)
(* the supervisor and the debate call llm.invoke, with nothing around the   *)
(* call but try/except: a call that does not return leaves the node, and    *)
(* with it graph.invoke, waiting.                                           *)

\* the node functions that start with an external call
CallingFns ==
    { "assess_complexity_node", "claim_extraction_node", "evidence_retrieval_node",
      "contradiction_analysis_node", "temporal_analysis_node", "peer_comparison_node",
      "credibility_analysis_node", "sentiment_analysis_node",
      "realtime_monitoring_node" }

\* the node about to run makes an external call
CallsOut ==
    /\ pc \in Nodes
    /\ \/ NodeFn[pc] \in CallingFns
       \/ /\ NodeFn[pc] = "debate_node"
          /\ detect_conflicts(extract_positions(agent_outputs)) # << >>

\* the call of the node about to run does not return
call_never_returns ==
    /\ CallsOut
    /\ pc' = "blocked"
    /\ UNCHANGED << inputs, main_fields, debate_fields, faults, complexity_score, workflow_path, evidence,
                    confidence, risk_level, agent_outputs, monitor_fields,
                    final_verdict, report, executed, appended, verdict_writes >>

\* a STANDARD run whose calls answer normally when they answer
TimeoutInit ==
    /\ pc = "assess_complexity"
    /\ claim = PlainClaim
    /\ industry = "Technology"
    /\ aliased \in BOOLEAN
    /\ outage = FALSE
    /\ scorer_reply = [ kind |-> "number", value |-> 50 ]
    /\ agent_positions = << >>
    /\ faults = MaxFaults
    /\ complexity_score = 0
    /\ workflow_path = ""
    /\ evidence = << >>
    /\ confidence = 0
    /\ risk_level = ""
    /\ agent_outputs = << >>
    /\ iteration_count = 0
    /\ needs_revision = FALSE
    /\ final_verdict = NoVerdict
    /\ report = FALSE
    /\ executed = << >>
    /\ appended = 0
    /\ verdict_writes = 0
    /\ passes = 0
    /\ round_num = 0
    /\ turn = 0
    /\ debate_history = << >>
    /\ detector = NoDetector
    /\ analyses = << >>

\* the nodes of the STANDARD path, each call of which may not return
TimeoutNext ==
    \/ assess_complexity_node
    \/ classify_workflow
    \/ claim_extraction_node
    \/ evidence_retrieval_node
    \/ contradiction_analysis_node
    \/ temporal_analysis_node
    \/ peer_comparison_node
    \/ credibility_analysis_node
    \/ sentiment_analysis_node
    \/ realtime_monitoring_node
    \/ risk_scoring_node
    \/ confidence_scoring_node
    \/ verdict_generation_node
    \/ report_generation_node
    \/ call_never_returns

TimeoutSpec == TimeoutInit /\ [][TimeoutNext]_vars /\ WF_vars(TimeoutNext)

----------------------------------------------------------------------------
(* The confidence monitor.  workflow_phase2.py wires no node for it; these  *)
(* specifications run confidence_check_node after passes of a path that    *)
(* append outputs of any confidence.                                        *)

\* the longest run of passes explored when nothing else stops them
MaxPasses == 4

\* what one pass of a path may leave for the monitor to read
PassOutputs ==
    { OkOut("risk_scoring", "dict", c) : c \in { 0, 4000, 5000, 9000 } }
    \cup { ErrOut("claim_extraction", 5000) }
    \cup { [ Out("debate_orchestrator") EXCEPT
               !.action = "conflict_detected", !.n_conflicting = 11 ] }

MonitorInit ==
    /\ pc = "path_pass"
    /\ claim = PlainClaim
    /\ industry = "Technology"
    /\ aliased \in BOOLEAN
    /\ outage = FALSE
    /\ scorer_reply = NoReply
    /\ agent_positions = << >>
    /\ faults = 0
    /\ complexity_score = 50
    /\ workflow_path = "standard_track"
    /\ evidence = << >>
    /\ confidence = 0
    /\ risk_level = ""
    /\ agent_outputs = << >>
    /\ iteration_count = 0
    /\ needs_revision = FALSE
    /\ final_verdict = NoVerdict
    /\ report = FALSE
    /\ executed = << >>
    /\ appended = 0
    /\ verdict_writes = 0
    /\ passes = 0
    /\ round_num = 0
    /\ turn = 0
    /\ debate_history = << >>
    /\ detector = NoDetector
    /\ analyses = << >>

\* one pass of the path executor, as the outputs it leaves
path_pass ==
    /\ pc = "path_pass"
    /\ passes < MaxPasses
    /\ \E o \in PassOutputs : agent_outputs' = Merge(agent_outputs, << o >>)
    /\ appended' = appended + 1
    /\ pc' = "confidence_check"
    /\ UNCHANGED << inputs, main_fields, debate_fields, faults, complexity_score, workflow_path, evidence,
                    confidence, risk_level, monitor_fields, final_verdict, report,
                    executed, verdict_writes >>

\* check_confidence (confidence_monitor.py 11-66), then the graph moves to after[needs_revision]
check_confidence(after) ==
    /\ pc = "confidence_check"
    /\ LET avg == monitor_confidence(agent_outputs)
           revise == must_revise(avg, iteration_count)
       IN  /\ confidence' = avg
           /\ needs_revision' = revise
           /\ iteration_count' = IF revise THEN iteration_count + 1 ELSE iteration_count
           /\ agent_outputs' =
                Merge(agent_outputs, << monitor_out(avg, revise, iteration_count') >>)
    /\ passes' = passes + 1
    /\ appended' = appended + 1
    /\ executed' = Append(executed, pc)
    /\ pc' = after[needs_revision']
    /\ UNCHANGED << inputs, main_fields, debate_fields, faults, complexity_score, workflow_path, evidence,
                    risk_level, final_verdict, report, verdict_writes >>

\* the monitor followed by its conditional edge should_revise_edge
RevisionEdge ==
    [ needs \in BOOLEAN |-> IF should_revise(needs) = "revise" THEN "path_pass" ELSE "END" ]

confidence_check_node == check_confidence(RevisionEdge)

MonitorNext == path_pass \/ confidence_check_node

MonitorSpec == MonitorInit /\ [][MonitorNext]_vars /\ WF_vars(MonitorNext)

\* the monitor invoked again and again, whatever it answered
AnyEdge == [ needs \in BOOLEAN |-> "path_pass" ]

confidence_check_again == check_confidence(AnyEdge)

FreeMonitorNext == path_pass \/ confidence_check_again

FreeMonitorSpec == MonitorInit /\ [][FreeMonitorNext]_vars

----------------------------------------------------------------------------
(* The vote alone: resolve_by_voting on positions of any verdicts and      *)
(* confidences, as conduct_debate calls it and stores its result            *)
(* (debate_orchestrator.py 47-73).                                          *)

\* the longest list of arbitrary positions put to the vote
MaxVoters == 3

\* the agents whose outputs become positions, in the order of the DEEP path
Voters ==
    << "claim_extraction", "evidence_retrieval", "contradiction_analysis",
       "temporal_analysis", "peer_comparison", "credibility_analysis",
       "sentiment_analysis" >>

VoteConfidences == { 0, 900, 1000, 5000, 5900, 9000 }

PositionChoices == { "LOW", "MODERATE", "HIGH" } \X VoteConfidences

\* a list of (verdict, confidence) pairs as the positions of the first voters
PositionsOf(pairs) ==
    [ k \in 1..Len(pairs) |->
        [ agent |-> Voters[k], verdict |-> pairs[k][1], confidence |-> pairs[k][2] ] ]

\* five steps at 0.1 for LOW and one step at 0.9 for HIGH
DominanceScenario ==
    PositionsOf(<< << "LOW", 1000 >>, << "LOW", 1000 >>, << "LOW", 1000 >>,
                   << "LOW", 1000 >>, << "LOW", 1000 >>, << "HIGH", 9000 >> >>)

\* four of five steps against the winner: conflict ratio 0.8
DiscountScenario ==
    PositionsOf(<< << "HIGH", 9000 >>, << "LOW", 1000 >>, << "LOW", 1000 >>,
                   << "LOW", 1000 >>, << "LOW", 1000 >> >>)

\* three steps HIGH at 0.9, 0.8, 0.7 and four steps LOW at 0.4
SevenStepScenario ==
    PositionsOf(<< << "HIGH", 9000 >>, << "HIGH", 8000 >>, << "HIGH", 7000 >>,
                   << "LOW", 4000 >>, << "LOW", 4000 >>, << "LOW", 4000 >>,
                   << "LOW", 4000 >> >>)

\* the positions put to the vote: a scenario, or up to MaxVoters positions of
\* any verdicts and confidences
PositionLists ==
    \/ agent_positions \in { DominanceScenario, DiscountScenario, SevenStepScenario }
    \/ \E n \in 1..MaxVoters :
         \E pairs \in [ 1..n -> PositionChoices ] : agent_positions = PositionsOf(pairs)

VoteInit ==
    /\ pc = "resolve_by_voting"
    /\ claim = PlainClaim
    /\ industry = "Technology"
    /\ aliased = FALSE
    /\ outage \in BOOLEAN
    /\ scorer_reply = NoReply
    /\ PositionLists
    /\ faults = 0
    /\ complexity_score = 85
    /\ workflow_path = "deep_analysis"
    /\ evidence = << >>
    /\ confidence = 0
    /\ risk_level = ""
    /\ agent_outputs = << >>
    /\ iteration_count = 0
    /\ needs_revision = FALSE
    /\ final_verdict = NoVerdict
    /\ report = FALSE
    /\ executed = << >>
    /\ appended = 0
    /\ verdict_writes = 0
    /\ passes = 0
    /\ round_num = 0
    /\ turn = 0
    /\ debate_history = << >>
    /\ detector = NoDetector
    /\ analyses = << >>

\* conduct_debate lines 47-73 on agent_positions: the rounds leave nargs
\* arguments, the vote is taken and its result stored
resolve_votes ==
    /\ pc = "resolve_by_voting"
    /\ \E nargs \in ArgCounts(Len(agent_positions)) :
          LET final == resolve_by_voting(agent_positions, nargs)
          IN  /\ confidence' = final.confidence
              /\ risk_level' = final.verdict
              /\ agent_outputs' =
                   Merge(agent_outputs,
                         << [ resolution_out(final) EXCEPT !.total_arguments = nargs ] >>)
    /\ appended' = appended + 1
    /\ pc' = "voted"
    /\ UNCHANGED << inputs, main_fields, debate_fields, faults, complexity_score, workflow_path, evidence,
                    monitor_fields, final_verdict, report, executed, verdict_writes >>

VoteSpec == VoteInit /\ [][resolve_votes]_vars

----------------------------------------------------------------------------
(* The debate followed by the confidence monitor, on analysis outputs of    *)
(* any verdicts and confidences.  workflow_phase2.py does not wire the      *)
(* monitor; the order resolver, then monitor is the one check_confidence    *)
(* is written for (it reads the debate entries).                            *)

\* the output of voter k from which extract_positions derives the pair
OutputOf(k, pair) ==
    IF Voters[k] = "contradiction_analysis"
    THEN [ OkOut(Voters[k], "dict", pair[2]) EXCEPT
             !.contradictions_count =
                 CASE pair[1] = "HIGH" -> 3 [] pair[1] = "MODERATE" -> 1 [] OTHER -> 0 ]
    ELSE OkOut(Voters[k],
               CASE pair[1] = "HIGH" -> "dict_high"
                 [] pair[1] = "LOW" -> "dict_low"
                 [] OTHER -> "dict",
               pair[2])

OutputsOf(pairs) == [ k \in 1..Len(pairs) |-> OutputOf(k, pairs[k]) ]

\* the pairs of a list of positions
PairsOf(positions) ==
    [ k \in 1..Len(positions) |-> << positions[k].verdict, positions[k].confidence >> ]

ConsensusInit ==
    /\ pc = "consensus_resolver"
    /\ claim = PlainClaim
    /\ industry = "Technology"
    /\ aliased \in BOOLEAN
    /\ outage = FALSE
    /\ scorer_reply = NoReply
    /\ PositionLists
    /\ faults = 0
    /\ complexity_score = 85
    /\ workflow_path = "deep_analysis"
    /\ evidence = << >>
    /\ confidence = 0
    /\ risk_level = "MODERATE"
    /\ agent_outputs = OutputsOf(PairsOf(agent_positions))
    /\ iteration_count = 0
    /\ needs_revision = FALSE
    /\ final_verdict = NoVerdict
    /\ report = FALSE
    /\ executed = << >>
    /\ appended = Len(agent_positions)
    /\ verdict_writes = 0
    /\ passes = 0
    /\ round_num = 0
    /\ turn = 0
    /\ debate_history = << >>
    /\ detector = NoDetector
    /\ analyses = << >>

\* conduct_debate (debate_orchestrator.py 21-75), the monitor next
consensus_resolver ==
    /\ pc = "consensus_resolver"
    /\ LET positions == extract_positions(agent_outputs)
           conflicts == detect_conflicts(positions)
       IN  IF conflicts = << >>
           THEN /\ agent_outputs' = Merge(agent_outputs, << no_conflict_out >>)
                /\ appended' = appended + 1
                /\ UNCHANGED << confidence, risk_level >>
           ELSE \E nargs \in ArgCounts(Len(conflicts)) :
                  LET final == resolve_by_voting(positions, nargs)
                  IN  /\ confidence' = final.confidence
                      /\ risk_level' = final.verdict
                      /\ agent_outputs' =
                           Merge(agent_outputs,
                                 << conflict_out(conflicts),
                                    [ resolution_out(final) EXCEPT
                                        !.total_arguments = nargs ] >>)
                      /\ appended' = appended + 2
    /\ executed' = Append(executed, pc)
    /\ pc' = "confidence_check"
    /\ UNCHANGED << inputs, main_fields, debate_fields, faults, complexity_score, workflow_path, evidence,
                    monitor_fields, final_verdict, report, verdict_writes >>

ConsensusNext == consensus_resolver \/ confidence_check_node

ConsensusSpec == ConsensusInit /\ [][ConsensusNext]_vars

----------------------------------------------------------------------------
(* The end of the DEEP path, verdict -> debate -> report -> END              *)
(* (workflow_phase2.py 103-127), on analysis outputs of any verdicts and    *)
(* confidences and a risk level of MODERATE from the risk scorer.           *)

DeepTailInit ==
    /\ pc = "deep_verdict"
    /\ claim \in { PlainClaim, [ PlainClaim EXCEPT !.superlative = TRUE ] }
    /\ industry = "Technology"
    /\ aliased \in BOOLEAN
    /\ outage = FALSE
    /\ scorer_reply = NoReply
    /\ PositionLists
    /\ faults = 0
    /\ complexity_score = 85
    /\ workflow_path = "deep_analysis"
    /\ evidence = << >>
    /\ confidence = 7500
    /\ risk_level = "MODERATE"
    /\ agent_outputs = OutputsOf(PairsOf(agent_positions))
    /\ iteration_count = 0
    /\ needs_revision = FALSE
    /\ final_verdict = NoVerdict
    /\ report = FALSE
    /\ executed = << >>
    /\ appended = Len(agent_positions)
    /\ verdict_writes = 0
    /\ passes = 0
    /\ round_num = 0
    /\ turn = 0
    /\ debate_history = << >>
    /\ detector = NoDetector
    /\ analyses = << >>

DeepTailNext == verdict_generation_node \/ debate_node \/ report_generation_node

DeepTailSpec == DeepTailInit /\ [][DeepTailNext]_vars

----------------------------------------------------------------------------
(* The verdict alone: verdict_generation_node on any claim, sector, risk    *)
(* level, confidence, track record and contradiction count, then the        *)
(* report (workflow_phase2.py 110-112).                                     *)

VerdictConfidences == { 0, 5000, 8000, 10000 }

\* the outputs the verdict reads: contradiction analysis, temporal analysis
\* and the risk scorer's
VerdictTrail(c, h, level) ==
    << contradiction_analysis_out(c), temporal_analysis_out(h),
       [ OkOut("risk_scoring", "dict", 5000) EXCEPT !.risk_level = level ] >>

VerdictInit ==
    /\ pc = "std_verdict"
    /\ claim \in ClaimShape
    /\ industry \in { "Energy", "Technology" }
    /\ aliased = FALSE
    /\ outage = FALSE
    /\ scorer_reply = NoReply
    /\ agent_positions = << >>
    /\ faults = 0
    /\ complexity_score = 50
    /\ workflow_path = "standard_track"
    /\ evidence = << >>
    /\ confidence \in VerdictConfidences
    /\ risk_level \in { "LOW", "MODERATE", "HIGH" }
    /\ \E c \in { "ok", "ok3" } :
         \E h \in HistKinds \cup { "nondict", "none" } :
           agent_outputs = VerdictTrail(c, h, risk_level)
    /\ iteration_count = 0
    /\ needs_revision = FALSE
    /\ final_verdict = NoVerdict
    /\ report = FALSE
    /\ executed = << >>
    /\ appended = 3
    /\ verdict_writes = 0
    /\ passes = 0
    /\ round_num = 0
    /\ turn = 0
    /\ debate_history = << >>
    /\ detector = NoDetector
    /\ analyses = << >>

VerdictNext == verdict_generation_node \/ report_generation_node

VerdictSpec == VerdictInit /\ [][VerdictNext]_vars

----------------------------------------------------------------------------
(* conduct_debate step by step (debate_orchestrator.py 21-75 and 141-197):  *)
(* positions and conflicts, then in each round one llm.invoke per           *)
(* conflicting position, then the vote.                                     *)

\* the positions debated: a scenario, or up to MaxVoters positions of any
\* verdicts at confidence 0.5
DebatePositions ==
    \/ agent_positions \in { DominanceScenario, DiscountScenario, SevenStepScenario }
    \/ \E n \in 1..MaxVoters :
         \E pairs \in [ 1..n -> { "LOW", "MODERATE", "HIGH" } \X { 5000 } ] :
            agent_positions = PositionsOf(pairs)

DebateInit ==
    /\ pc = "conduct_debate"
    /\ claim = PlainClaim
    /\ industry = "Technology"
    /\ aliased = FALSE
    /\ outage \in BOOLEAN
    /\ scorer_reply = NoReply
    /\ DebatePositions
    /\ faults = 0
    /\ complexity_score = 85
    /\ workflow_path = "deep_analysis"
    /\ evidence = << >>
    /\ confidence = 6400
    /\ risk_level \in { "LOW", "MODERATE", "HIGH" }
    /\ agent_outputs = OutputsOf(PairsOf(agent_positions))
    /\ iteration_count = 0
    /\ needs_revision = FALSE
    /\ final_verdict = NoVerdict
    /\ report = FALSE
    /\ executed = << >>
    /\ appended = Len(agent_positions)
    /\ verdict_writes = 0
    /\ passes = 0
    /\ round_num = 0
    /\ turn = 0
    /\ debate_history = << >>
    /\ detector = NoDetector
    /\ analyses = << >>

\* lines 26-45: positions, conflicts, and the entry that says which
conduct_debate_begin ==
    /\ pc = "conduct_debate"
    /\ LET conflicts == detect_conflicts(extract_positions(agent_outputs))
       IN  IF conflicts = << >>
           THEN /\ agent_outputs' = Merge(agent_outputs, << no_conflict_out >>)
                /\ pc' = "debate_done"
                /\ UNCHANGED debate_fields
           ELSE /\ agent_outputs' = Merge(agent_outputs, << conflict_out(conflicts) >>)
                /\ debate_history' = << >>
                /\ IF round_in_range(1)
                   THEN round_num' = 1 /\ turn' = 1 /\ pc' = "run_debate_round"
                   ELSE round_num' = 0 /\ turn' = 0 /\ pc' = "vote_resolve"
    /\ appended' = appended + 1
    /\ executed' = Append(executed, pc)
    /\ UNCHANGED << inputs, main_fields, faults, complexity_score, workflow_path, evidence,
                    confidence, risk_level, monitor_fields, final_verdict, report,
                    verdict_writes >>

\* run_debate_round lines 155-195, one pass of its loop: llm.invoke for the
\* position whose turn it is; an argument is recorded when the call returns
\* (debate_history here is debate_history + round_arguments of the code)
argue ==
    /\ pc = "run_debate_round"
    /\ \E o \in (IF outage THEN { "raise" }
                 ELSE { "ok" } \cup (IF faults < MaxArgFailures THEN { "raise" } ELSE {})) :
         /\ debate_history' =
              IF o = "ok"
              THEN Append(debate_history,
                          [ round |-> round_num, agent |-> agent_positions[turn].agent ])
              ELSE debate_history
         /\ faults' = IF o = "ok" THEN faults ELSE faults + 1
    /\ IF turn < Len(detect_conflicts(agent_positions))
       THEN turn' = turn + 1 /\ UNCHANGED << round_num, pc >>
       ELSE IF round_in_range(round_num + 1)
       THEN round_num' = round_num + 1 /\ turn' = 1 /\ UNCHANGED pc
       ELSE pc' = "vote_resolve" /\ turn' = 0 /\ UNCHANGED round_num
    /\ UNCHANGED << inputs, main_fields, complexity_score, workflow_path, evidence, confidence,
                    risk_level, agent_outputs, monitor_fields, final_verdict, report,
                    executed, appended, verdict_writes >>

\* lines 58-75: the vote and what conduct_debate stores of it
vote_resolve ==
    /\ pc = "vote_resolve"
    /\ LET final == resolve_by_voting(agent_positions, Len(debate_history))
       IN  /\ confidence' = final.confidence
           /\ risk_level' = final.verdict
           /\ agent_outputs' =
                Merge(agent_outputs,
                      << [ resolution_out(final) EXCEPT
                             !.total_arguments = Len(debate_history) ] >>)
    /\ appended' = appended + 1
    /\ pc' = "debate_done"
    /\ UNCHANGED << inputs, main_fields, debate_fields, faults, complexity_score, workflow_path,
                    evidence, monitor_fields, final_verdict, report, executed,
                    verdict_writes >>

DebateNext == conduct_debate_begin \/ argue \/ vote_resolve

DebateSpec == DebateInit /\ [][DebateNext]_vars

----------------------------------------------------------------------------
(* The steps that write confidence, on step outputs of any verdicts and of  *)
(* confidences 0, 0.5 and 1: the DEEP path from confidence scoring on       *)
(* (workflow_phase2.py 130-134), and the debate followed by the monitor.    *)

RangePositions ==
    \E n \in 1..MaxVoters :
      \E pairs \in [ 1..n -> { "LOW", "MODERATE", "HIGH" } \X { 0, 5000, 10000 } ] :
         agent_positions = PositionsOf(pairs)

RangeInit ==
    /\ pc \in { "deep_confidence", "consensus_resolver" }
    /\ claim \in { PlainClaim, [ PlainClaim EXCEPT !.legit = TRUE ],
                   [ PlainClaim EXCEPT !.absolute = TRUE ] }
    /\ industry = "Technology"
    /\ aliased \in BOOLEAN
    /\ outage = FALSE
    /\ scorer_reply = NoReply
    /\ RangePositions
    /\ faults = 0
    /\ complexity_score = 85
    /\ workflow_path = "deep_analysis"
    /\ evidence = << >>
    /\ confidence = 0
    /\ risk_level = "MODERATE"
    /\ agent_outputs = OutputsOf(PairsOf(agent_positions))
    /\ iteration_count = 0
    /\ needs_revision = FALSE
    /\ final_verdict = NoVerdict
    /\ report = FALSE
    /\ executed = << >>
    /\ appended = Len(agent_positions)
    /\ verdict_writes = 0
    /\ passes = 0
    /\ round_num = 0
    /\ turn = 0
    /\ debate_history = << >>
    /\ detector = NoDetector
    /\ analyses = << >>

RangeNext ==
    \/ confidence_scoring_node
    \/ verdict_generation_node
    \/ debate_node
    \/ report_generation_node
    \/ consensus_resolver
    \/ confidence_check_node

RangeSpec == RangeInit /\ [][RangeNext]_vars

----------------------------------------------------------------------------
(* main.py: ESGGreenwashingDetector.__init__ and analyze_company, called    *)
(* again and again by interactive_mode (lines 557-600), which catches what  *)
(* a call raises.                                                           *)

\* the most analyze_company calls followed on one detector
MaxCalls == 2

\* lines 30-38 and 58-72: USE_AUTOGEN and the import of hybrid_orchestrator,
\* which is an object, None (hybrid_orchestrator.py 407-423), or fails
Loads == { "loaded", "none", "import_error" }

\* __init__, lines 47-113
detector_init ==
    /\ pc = "main"
    /\ \E USE_AUTOGEN \in BOOLEAN, load \in Loads :
         LET use == USE_AUTOGEN /\ load = "loaded"
         IN  detector' = [ built |-> TRUE, use_autogen |-> use, orchestrator |-> use,
                           agents |-> ~use ]
    /\ pc' = "interactive_mode"
    /\ UNCHANGED << inputs, debate_fields, analyses, faults, complexity_score,
                    workflow_path, evidence, confidence, risk_level, agent_outputs,
                    monitor_fields, final_verdict, report, executed, appended,
                    verdict_writes >>

\* line 152: analyze_with_autogen(company_name, esg_content,
\* enable_realtime=...) against the signature (self, company, content=None)
\* of hybrid_orchestrator.py 124: the call raises TypeError
analyze_with_autogen == "TypeError"

\* _direct_analysis_11_agents, lines 165-345: agent_8 is called inside a
\* try, the content is fetched without an agent, agent_1 is called bare
direct_analysis(agents, content) ==
    IF content = "not_found" THEN "no_content"
    ELSE IF agents THEN "direct_result" ELSE "AttributeError"

\* analyze_company lines 132-163; the AutoGen block is inside `if clear_cache`
analyze_outcome(d, clear_cache, content) ==
    IF clear_cache /\ d.use_autogen /\ d.orchestrator
       /\ analyze_with_autogen = "returns"
    THEN "autogen_result"
    ELSE direct_analysis(d.agents, content)

analyze_company ==
    /\ pc = "interactive_mode"
    /\ Len(analyses) < MaxCalls
    /\ \E clear_cache \in BOOLEAN, content \in { "given", "found", "not_found" },
          enable_realtime \in BOOLEAN :
         analyses' = Append(analyses,
                            [ clear_cache |-> clear_cache, content |-> content,
                              enable_realtime |-> enable_realtime,
                              autogen_called |-> clear_cache /\ detector.use_autogen
                                                 /\ detector.orchestrator,
                              result |-> analyze_outcome(detector, clear_cache, content) ])
    /\ UNCHANGED << pc, inputs, debate_fields, detector, faults, complexity_score,
                    workflow_path, evidence, confidence, risk_level, agent_outputs,
                    monitor_fields, final_verdict, report, executed, appended,
                    verdict_writes >>

DirectInit ==
    /\ pc = "main"
    /\ claim = PlainClaim
    /\ industry = "Technology"
    /\ aliased = FALSE
    /\ outage = FALSE
    /\ scorer_reply = NoReply
    /\ agent_positions = << >>
    /\ faults = 0
    /\ complexity_score = 0
    /\ workflow_path = ""
    /\ evidence = << >>
    /\ confidence = 0
    /\ risk_level = ""
    /\ agent_outputs = << >>
    /\ iteration_count = 0
    /\ needs_revision = FALSE
    /\ final_verdict = NoVerdict
    /\ report = FALSE
    /\ executed = << >>
    /\ appended = 0
    /\ verdict_writes = 0
    /\ passes = 0
    /\ round_num = 0
    /\ turn = 0
    /\ debate_history = << >>
    /\ detector = NoDetector
    /\ analyses = << >>

DirectNext == detector_init \/ analyze_company

DirectSpec == DirectInit /\ [][DirectNext]_vars

----------------------------------------------------------------------------
(* Properties.                                                              *)

Levels == { "LOW", "MODERATE", "HIGH" }

Ended == pc \in { "END", "failed" }

\* the nodes of the graph from node n to END, in the order of its edges
RECURSIVE Chain(_)
Chain(n) == IF n = "END" THEN << >> ELSE << n >> \o Chain(Edge[n])

Ran(fn) == \E i \in 1..Len(executed) : NodeFn[executed[i]] = fn

\* C1: route_workflow sends a score below 0.3 to the FAST path, a score from
\* 0.3 up to but not including 0.7 to STANDARD, and a score of 0.7 or more to
\* DEEP; the score alone decides, and the graph enters that path's first step.
C1_ScoreDecidesPath ==
    workflow_path # "" =>
        /\ complexity_score < 30 => workflow_path = "fast_track" /\ pc = "fast_claim"
        /\ (complexity_score >= 30 /\ complexity_score < 70)
              => workflow_path = "standard_track" /\ pc = "std_claim"
        /\ complexity_score >= 70 => workflow_path = "deep_analysis" /\ pc = "deep_claim"

\* C1 witness: the boundary score 0.3 has been routed, to STANDARD.
C1_BoundaryRouted ==
    complexity_score = 30 /\ workflow_path = "standard_track" /\ pc = "std_claim"

\* C2: every run ends with final_verdict set and risk_level one of LOW,
\* MODERATE, HIGH, whichever steps failed, were unavailable or returned a
\* payload that is not a dict; no run ends as an error.
C2_EveryRunEndsWithVerdict ==
    Ended => pc = "END" /\ final_verdict.set /\ risk_level \in Levels

\* C3: the trail is append-only: after N steps have appended it holds exactly
\* N entries, none of them duplicated by the merge of a returned state.
C3_TrailHoldsWhatWasAppended ==
    /\ RawLen(agent_outputs) = appended
    /\ \A i \in 1..Len(agent_outputs) : agent_outputs[i].copies = 1

C5_ErrorOutputsCarryZero ==
    \A i \in 1..Len(agent_outputs) :
        agent_outputs[i].error => agent_outputs[i].confidence = 0

\* C6: the steps of the selected path, and only those, each run exactly once
\* in the order of the path; no failure stops, skips or reorders a later step.
C6_WholePathInOrder ==
    Ended => executed = << "assess_complexity" >> \o Chain(Branch[workflow_path])

\* C7: on the DEEP path the verdict runs only after the consensus resolver
\* (the debate) has completed.
C7_VerdictAfterConsensus ==
    \A i \in 1..Len(executed) :
        executed[i] = "deep_verdict" =>
            \E j \in 1..(i - 1) : executed[j] = "deep_debate"

C9_LoopEndsWithinThreePasses ==
    /\ [](passes <= 3)
    /\ [](pc = "END" => ~needs_revision)
    /\ <>(pc = "END")

\* C9 witness: confidence stayed below 0.5 through three passes and the run
\* ended after the third.
C9_ThreeLowPasses ==
    pc = "END" /\ passes = 3 /\ iteration_count = 2 /\ confidence < 5000

\* C10: iteration_count never decreases and never exceeds max_iterations,
\* however often the monitor is invoked.
C10_IterationCountBounded ==
    /\ [](iteration_count <= max_iterations)
    /\ [][iteration_count' >= iteration_count]_vars

\* C10 witness: the monitor has been invoked a fourth time on low confidence
\* with iteration_count already at max_iterations.
C10_InvokedBeyondCap ==
    passes = 4 /\ iteration_count = max_iterations /\ confidence < 5000

----------------------------------------------------------------------------
(* Properties of the vote.                                                  *)

Voted == pc = "voted"

\* the votes cast for verdict v: floor(confidence * 10) from each position
CastFor(v) ==
    SumSeq([ k \in 1..Len(agent_positions) |->
               IF agent_positions[k].verdict = v
               THEN agent_positions[k].confidence \div 1000 ELSE 0 ])

TotalCast == CastFor("LOW") + CastFor("MODERATE") + CastFor("HIGH")

\* the sum of the raw confidences behind verdict v
RawSum(v) ==
    SumSeq([ k \in 1..Len(agent_positions) |->
               IF agent_positions[k].verdict = v
               THEN agent_positions[k].confidence ELSE 0 ])

\* the positions whose verdict is not the stored one
Dissenters ==
    Cardinality({ k \in 1..Len(agent_positions) :
                    agent_positions[k].verdict # risk_level })

\* len(debate_history) as the resolution entry records it
ArgumentsRecorded == agent_outputs[Len(agent_outputs)].total_arguments

\* winning votes over total votes, plus the bonus for the arguments, capped
Undiscounted ==
    Min(9500, (CastFor(risk_level) * 10000) \div TotalCast
                + Min(1000, ArgumentsRecorded * 100))

\* C11: the verdict stored by the vote is one with the most votes, each
\* position casting floor(confidence * 10) votes, however many positions
\* stand behind each verdict; one position at 0.9 for HIGH beats five
\* positions at 0.1 for LOW.
C11_MostVotesWin ==
    (Voted /\ TotalCast > 0) =>
        /\ \A v \in Levels : CastFor(v) <= CastFor(risk_level)
        /\ agent_positions = DominanceScenario => risk_level = "HIGH"

\* C11 witness: the vote of one step at 0.9 against five at 0.1 was taken.
C11_MinorityWon ==
    Voted /\ agent_positions = DominanceScenario /\ risk_level = "HIGH"

\* C12: when verdicts tie on votes, the tied verdict with the higher sum of
\* raw confidences wins, and MODERATE wins when the sums tie too.
C12_TieBrokenByConfidenceSum ==
    (Voted /\ TotalCast > 0) =>
        LET top == { v \in Levels : \A w \in Levels : CastFor(w) <= CastFor(v) }
            best == { v \in top : \A w \in top : RawSum(w) <= RawSum(v) }
        IN  Cardinality(top) >= 2 =>
                IF Cardinality(best) = 1 THEN risk_level \in best
                ELSE risk_level = "MODERATE"

\* C13: the confidence stored by the vote is the undiscounted value times
\* (1 - conflictRatio * 0.30) when conflictRatio >= 0.60, at most 76% of it
\* for conflictRatio = 0.8, and the undiscounted value itself below 0.60.
C13_DiscountFromSixtyPercent ==
    (Voted /\ TotalCast > 0) =>
        LET npos == Len(agent_positions)
        IN  /\ Dissenters * 10 >= 6 * npos =>
                 confidence = (Undiscounted * (10 * npos - 3 * Dissenters)) \div (10 * npos)
            /\ Dissenters * 10 < 6 * npos => confidence = Undiscounted
            /\ Dissenters * 10 = 8 * npos => confidence * 100 <= Undiscounted * 76

\* C13 witness: a vote with four of five positions against the winner.
C13_RatioEightTenths ==
    /\ Voted /\ agent_positions = DiscountScenario
    /\ Dissenters = 4 /\ confidence < Undiscounted

\* C14 as stated: in the seven-step scenario the votes are HIGH 24 and LOW
\* 16, HIGH wins, the reported confidence is about 0.60 (within 0.05), the
\* conflict ratio is 4/7 and no conflict discount is applied.
C14_ScenarioReportsSixtyPercent ==
    (Voted /\ agent_positions = SevenStepScenario) =>
        /\ CastFor("HIGH") = 24 /\ CastFor("LOW") = 16
        /\ risk_level = "HIGH"
        /\ Dissenters = 4 /\ Len(agent_positions) = 7
        /\ confidence >= 5500 /\ confidence <= 6500

\* C14: in the seven-step scenario the votes are HIGH 24 and LOW 16, HIGH
\* wins with consensus strength 0.60, the conflict ratio is 4/7 and no
\* conflict discount is applied; the reported confidence is 0.60 plus the
\* bonus min(0.10, 0.01 * arguments recorded): 0.70 from ten arguments on.
C14_ScenarioWithDebateBonus ==
    (Voted /\ agent_positions = SevenStepScenario) =>
        /\ CastFor("HIGH") = 24 /\ CastFor("LOW") = 16
        /\ risk_level = "HIGH"
        /\ Dissenters = 4 /\ Len(agent_positions) = 7
        /\ confidence = 6000 + Min(1000, ArgumentsRecorded * 100)
        /\ ArgumentsRecorded >= 10 => confidence = 7000

\* C14 witness: the scenario voted after rounds in which every call returned.
C14_ScenarioVoted ==
    /\ Voted /\ agent_positions = SevenStepScenario
    /\ ArgumentsRecorded = 21 /\ confidence = 7000

----------------------------------------------------------------------------
(* Properties of the fields and of the supervisor.                          *)

RiskNodes == { "fast_risk", "std_risk", "deep_risk" }

ConfidenceNodes == { "fast_confidence", "std_confidence", "deep_confidence" }

VerdictNodes == { "fast_verdict", "std_verdict", "deep_verdict" }

C16_ScorerFailureDefaults ==
    /\ pc # "assess_complexity" => complexity_score \in 0..100
    /\ workflow_path # "" =>
         /\ scorer_reply.kind \in { "raise", "text" } =>
              /\ complexity_score = 50
              /\ workflow_path = "standard_track" /\ pc = "std_claim"
         /\ (scorer_reply.kind = "number" /\ scorer_reply.value < 0) =>
              complexity_score = 0 /\ workflow_path = "fast_track"
         /\ (scorer_reply.kind = "number" /\ scorer_reply.value > 100) =>
              complexity_score = 100 /\ workflow_path = "deep_analysis"
         /\ (scorer_reply.kind = "number" /\ scorer_reply.value \in 0..100) =>
              complexity_score = scorer_reply.value

\* C16 witness: the scorer raised and the run entered the STANDARD path.
C16_RaisedThenStandard ==
    scorer_reply.kind = "raise" /\ pc = "std_claim" /\ complexity_score = 50

----------------------------------------------------------------------------
(* Properties of runs whose calls may not return.                           *)

\* C17: a run terminates even when an external call never returns: the call
\* is cut off, recorded as a step error, and the next step runs.
C17_RunTerminates == <>Ended

----------------------------------------------------------------------------
(* Properties of the monitor after a debate.                                *)

\* the debate voted: its resolution entry is in the trail
ConsensusExists ==
    \E i \in 1..Len(agent_outputs) : agent_outputs[i].agent = "debate_resolution"

\* the mean confidence of the analysis outputs that carry no error
AnalysisMean ==
    LET kept == SelectSeq(agent_outputs,
                          LAMBDA o : o.agent \notin MonitorSkip \cup { "confidence_monitor" }
                                     /\ o.has_conf /\ ~o.error)
        w == SumSeq([ i \in 1..Len(kept) |-> kept[i].copies ])
    IN  IF w = 0 THEN 5000
        ELSE SumSeq([ i \in 1..Len(kept) |-> kept[i].copies * kept[i].confidence ]) \div w

\* C18: after a vote the monitor stores the mean confidence of the
\* error-free analysis outputs times (1 - penalty), once, with
\* penalty = min(0.25, conflictRatio * 0.30) and conflictRatio the share of
\* the positions that differ from the winner (to the last digit kept).
C18_PenaltyFromVoteRatio ==
    (passes = 1 /\ ConsensusExists) =>
        LET penalty == Min(2500, (Dissenters * 3000) \div Len(agent_positions))
            expected == (AnalysisMean * (10000 - penalty)) \div 10000
        IN  confidence \in (expected - 1)..(expected + 1)

----------------------------------------------------------------------------
(* Properties of the verdict on a DEEP run.                                 *)

\* the positions the debate voted on: those of the trail it was given, the
\* verdict's output among them
VotedPositions ==
    extract_positions(
        SelectSeq(agent_outputs,
                  LAMBDA o : o.agent \notin DebateAgents
                                             \cup { "professional_report_generation" }))

\* the share of the voted positions that differ from the verdict voted
VoteConflictRatio ==
    (Cardinality({ k \in 1..Len(VotedPositions) :
                     VotedPositions[k].verdict # risk_level }) * 10000)
        \div Len(VotedPositions)

\* a rule the cascade tries before the consensus rule has set the risk level
EarlierRuleFired ==
    \E i \in 1..Len(final_verdict.rules) :
        final_verdict.rules[i] \in
            { "absolute", "verified", "historical_violations", "greenwashing_pattern",
              "declining_trend", "reactive_claims", "contradictions" }

\* C20: in a DEEP run whose vote has a conflict ratio of 0.60 or more and
\* whose risk level is MODERATE when the consensus rule is reached (the risk
\* scorer said MODERATE and no earlier rule changed it), the verdict's risk
\* level is HIGH.
C20_VoteConflictEscalates ==
    (pc = "END" /\ ConsensusExists /\ VoteConflictRatio >= 6000 /\ ~EarlierRuleFired)
        => final_verdict.risk_level = "HIGH"

----------------------------------------------------------------------------
(* Properties of the verdict's rules.                                       *)

\* the risk level the risk scorer reported to the trail
ScoredRisk(level) ==
    \E i \in 1..Len(agent_outputs) :
        agent_outputs[i].agent = "risk_scoring" /\ agent_outputs[i].risk_level = level

\* C21: on a claim that matches the absolute pattern and is not a legitimate
\* dated carbon claim the verdict ends with risk_level HIGH and
\* confidence min(confidence * 0.60, 0.75); no historical rule is evaluated
\* (a track record that is not a dictionary raises nothing) or applied.
C21_AbsoluteShortCircuits ==
    [][(pc \in VerdictNodes /\ claim.absolute /\ ~claim.legit) =>
          /\ pc' # "failed"
          /\ risk_level' = "HIGH" /\ final_verdict'.risk_level = "HIGH"
          /\ confidence' = Min((confidence * 60) \div 100, 7500)
          /\ final_verdict'.final_confidence = confidence'
          /\ final_verdict'.rules = << "absolute" >>]_vars

\* C21 witness: a verdict on an absolute claim of a company whose track
\* record satisfies the first historical rule.
C21_AbsoluteWithPoorRecord ==
    /\ final_verdict.set /\ claim.absolute /\ ~claim.legit
    /\ historical_data(agent_outputs) = "hist_poor"
    /\ final_verdict.risk_level = "HIGH"

\* rule output b against its input a: the risk level kept or set to HIGH
Escalates(a, b) == b.risk_level \in { a.risk_level, "HIGH" }

\* C22: inside one invocation each rule after the first tier (historical,
\* contradiction count, consensus conflict, superlative, sector vagueness)
\* leaves risk_level as it found it or sets it to HIGH.
C22_LaterRulesNeverLower ==
    pc \in VerdictNodes =>
        LET h == historical_data(agent_outputs)
            r0 == [ risk_level |-> risk_level, confidence |-> confidence,
                    rules |-> << >>, raised |-> FALSE ]
            r1 == Tier1(r0, claim, h)
            r3 == Priority3(r1, contradiction_count(agent_outputs))
            r4 == Priority4(r3, debate_conflict_ratio(agent_outputs))
            r5 == Priority5(r4, claim)
            r6 == Priority6(r5, claim, industry)
        IN  /\ (~claim.absolute /\ ~claim.legit /\ IsDict(h))
                  => Escalates(r0, HistoricalRules(r0, h)) /\ Escalates(r0, r1)
            /\ ~r1.raised =>
                  /\ Escalates(r1, r3) /\ Escalates(r3, r4)
                  /\ Escalates(r4, r5) /\ Escalates(r5, r6)
                  /\ r6 = verdict_rules(risk_level, confidence, claim, industry,
                                        agent_outputs)

\* C22 witness: a historical rule raised a risk level of LOW to HIGH.
C22_LowRaisedByHistory ==
    /\ final_verdict.set /\ ScoredRisk("LOW")
    /\ final_verdict.rules = << "historical_violations" >>
    /\ final_verdict.risk_level = "HIGH"

\* C26: one invocation applies at most one rule: risk_level changes at most
\* once, confidence is multiplied by at most one factor, and after the
\* downgrade of a verified claim to LOW no rule escalates.
C26_AtMostOneRuleApplies ==
    [][(pc \in VerdictNodes /\ pc' # "failed") =>
          /\ Len(final_verdict'.rules) <= 1
          /\ final_verdict'.rules = << >>
                => risk_level' = risk_level /\ confidence' = confidence
          /\ final_verdict'.rules = << "verified" >>
                => risk_level' = "LOW"
                   /\ confidence' = Min((confidence * 110) \div 100, 8500)
          /\ final_verdict'.risk_level = risk_level']_vars

\* C26 witness: a verified carbon claim in superlative language, three
\* contradictions found, downgraded to LOW and left there.
C26_DowngradeNotEscalated ==
    /\ final_verdict.set /\ final_verdict.rules = << "verified" >>
    /\ claim.superlative /\ contradiction_count(agent_outputs) >= 3
    /\ ScoredRisk("HIGH") /\ risk_level = "LOW"

----------------------------------------------------------------------------
(* Properties of the debate.                                                *)

\* the positions agree or are fewer than two
NoConflict ==
    \/ Len(agent_positions) < 2
    \/ \A i, j \in 1..Len(agent_positions) :
          agent_positions[i].verdict = agent_positions[j].verdict

\* C23: when all positions carry the same verdict, or fewer than two exist,
\* conduct_debate runs no round and no vote, appends exactly one
\* 'no conflict' output and leaves risk_level and confidence unchanged.
C23_NoConflictNoDebate ==
    /\ [][(pc = "conduct_debate" /\ NoConflict) =>
            /\ pc' = "debate_done"
            /\ appended' = appended + 1
            /\ Len(agent_outputs') = Len(agent_outputs) + 1
            /\ agent_outputs'[Len(agent_outputs')].action = "no_conflict_detected"
            /\ UNCHANGED << risk_level, confidence, debate_fields, faults >>]_vars
    /\ []((NoConflict /\ pc = "debate_done") =>
            /\ executed = << "conduct_debate" >>
            /\ debate_history = << >> /\ round_num = 0
            /\ ~ConsensusExists)

\* C23 witness: three positions, all HIGH, and the debate is over.
C23_UnanimousDone ==
    /\ pc = "debate_done" /\ Len(agent_positions) = 3
    /\ \A k \in 1..3 : agent_positions[k].verdict = "HIGH"
    /\ risk_level = "LOW" /\ confidence = 6400

\* the calls of the rounds: those that returned and those that raised
CallsMade == Len(debate_history) + faults

\* C24: on a conflict the rounds 1..max_rounds run in increasing order, each
\* conflicting position adds at most one argument per round, a call that
\* raises adds none and the round goes on, and the vote starts only after
\* every call of the last round; at most max_rounds arguments per position.
C24_RoundsThenVote ==
    /\ [](/\ \A i, j \in 1..Len(debate_history) :
               i < j => /\ debate_history[i].round <= debate_history[j].round
                        /\ debate_history[i] # debate_history[j]
          /\ \A i \in 1..Len(debate_history) :
               debate_history[i].round \in 1..max_rounds
          /\ Len(debate_history) <= max_rounds * Len(agent_positions)
          /\ pc = "run_debate_round" =>
               /\ round_num \in 1..max_rounds
               /\ CallsMade = (round_num - 1) * Len(agent_positions) + turn - 1
          /\ (pc = "vote_resolve" \/ ConsensusExists) =>
               /\ round_num = max_rounds
               /\ CallsMade = max_rounds * Len(agent_positions))
    /\ [][/\ round_num' \in { round_num, round_num + 1 }
          /\ Len(debate_history') \in { Len(debate_history), Len(debate_history) + 1 }
          /\ ConsensusExists' /\ ~ConsensusExists => pc = "vote_resolve"]_vars

\* C24 witness: three positions debated, one call raised, the vote taken on
\* the eight arguments of the three rounds.
C24_DebatedWithOneFailure ==
    /\ pc = "debate_done" /\ ConsensusExists
    /\ Len(agent_positions) = 3 /\ faults = 1 /\ Len(debate_history) = 8
    /\ ArgumentsRecorded = 8

----------------------------------------------------------------------------
(* Properties of the vote's confidence.                                     *)

\* C25: when no conflict discount applies the confidence of the vote is
\* min(0.95, winningVotes / totalVotes + min(0.10, 0.01 * arguments)); the
\* bonus is at most 0.10, and with or without discount the confidence is at
\* most 0.95.
C25_BonusAndCap ==
    (Voted /\ TotalCast > 0) =>
        LET bonus == Min(1000, 100 * ArgumentsRecorded)
            consensus == (CastFor(risk_level) * 10000) \div TotalCast
        IN  /\ bonus <= 1000
            /\ confidence <= Min(9500, consensus + bonus)
            /\ Dissenters * 10 < 6 * Len(agent_positions)
                  => confidence = Min(9500, consensus + bonus)

\* C25 witness: a vote after twenty-one arguments, a bonus of 0.10 on a
\* consensus of 0.60, no discount.
C25_BonusAtItsCap ==
    /\ Voted /\ ArgumentsRecorded = 21
    /\ Dissenters * 10 < 6 * Len(agent_positions)
    /\ confidence = 7000

\* C29: when every position has a confidence below 0.1 no vote is cast and
\* the vote stored is MODERATE at confidence 0.5, with no conflicting step;
\* the debate records it in its resolution entry.
C29_NoVotesFallback ==
    (Voted /\ \A k \in 1..Len(agent_positions) : agent_positions[k].confidence < 1000) =>
        /\ TotalCast = 0
        /\ risk_level = "MODERATE" /\ confidence = 5000
        /\ LET res == agent_outputs[Len(agent_outputs)]
           IN  /\ res.agent = "debate_resolution"
               /\ res.has_conf /\ res.confidence = 5000
               /\ res.n_conflicting = 0 /\ ~res.has_ratio

\* C29 witness: HIGH at 0.09 against LOW at 0.0 and 0.09, and the fallback
\* stored.
C29_ThreeWeakPositions ==
    /\ Voted /\ Len(agent_positions) = 3
    /\ agent_positions[1].verdict = "HIGH" /\ agent_positions[1].confidence = 900
    /\ agent_positions[2].verdict = "LOW" /\ agent_positions[2].confidence = 0
    /\ agent_positions[3].verdict = "LOW" /\ agent_positions[3].confidence = 900
    /\ risk_level = "MODERATE" /\ confidence = 5000

----------------------------------------------------------------------------
(* Properties of the record at the end of a run.                            *)

\* C27: at the end of every run final_verdict.risk_level is the record's
\* risk_level and final_verdict.final_confidence is the record's confidence:
\* no step after the verdict changes either.
C27_VerdictMatchesRecord ==
    pc = "END" =>
        /\ final_verdict.set
        /\ final_verdict.risk_level = risk_level
        /\ final_verdict.final_confidence = confidence

\* C28: with every step confidence in [0,1] the record's confidence is in
\* [0,1] in every state: after confidence scoring, after the verdict (the
\* boost of the verified-claim rule included), after the debate and after
\* the confidence monitor.
C28_ConfidenceInUnitInterval ==
    /\ confidence \in 0..10000
    /\ final_verdict.final_confidence \in 0..10000
    /\ \A i \in 1..Len(agent_outputs) : agent_outputs[i].confidence \in 0..10000

\* C28 witness: a verified claim scored at confidence 1.0, boosted and
\* capped at 0.85.
C28_BoostCapped ==
    /\ final_verdict.set /\ final_verdict.rules = << "verified" >>
    /\ agent_positions[1].confidence = 10000
    /\ confidence = 8500

----------------------------------------------------------------------------
(* Properties of main.py.                                                   *)

\* C30: when the AutoGen orchestrator is loaded and its analysis call raises,
\* analyze_company returns the result of the direct analysis; for every
\* use_autogen and clear_cache the orchestration it reaches has its agents
\* initialised, so no call ends in an AttributeError on a missing agent.
C30_FallbackReachesInitialisedAgents ==
    \A i \in 1..Len(analyses) :
        /\ analyses[i].result # "AttributeError"
        /\ (analyses[i].autogen_called /\ analyze_with_autogen # "returns")
              => analyses[i].result \in { "direct_result", "no_content" }

====
